---- MODULE Spec2Model ----
(***************************************************************************)
(* The two Netflix dashboards (byyy/app.py = variant A, hii/app.py =       *)
(* variant B): one script run over an uploaded CSV, with clean_data        *)
(* executed statement by statement on data frames.                         *)
(*                                                                         *)
(* A cell is a triple <<kind, number, text>>; kind is "nan" (missing in a  *)
(* float or object column), "num", "str", "ts" (a parsed date/time) or     *)
(* "nat" (missing date/time).  Numbers are fixed point with two fractional *)
(* bits (the number v is stored as 4*v), so that the median of an even     *)
(* count of integers, and the median of such medians, is exact.            *)
(* A frame is [cols |-> sequence of [name, dtype], rows |-> sequence of    *)
(* [idx, cells]]; idx is the row's index label, kept by every row filter.  *)
(* A column name is a sequence of one-character strings.                   *)
(***************************************************************************)
EXTENDS Integers, Sequences, FiniteSets, TLC

VARIABLES variant, upload, phase, ip, heap, df, exc, message, session

vars == <<variant, upload, phase, ip, heap, df, exc, message, session>>

\* Bounds of the uploaded datasets.
MaxRows == 3
MaxCols == 2

(***************************************************************************)
(* Cells                                                                   *)
(***************************************************************************)
NaN == <<"nan", 0, "">>
NaT == <<"nat", 0, "">>
Num(v) == <<"num", 4 * v, "">>
Str(s) == <<"str", 0, s>>
Ts(n, unit) == <<"ts", n, unit>>

\* Series.isna / notna: NaN and NaT are the missing values.
IsNa(c) == c[1] \in {"nan", "nat"}

(***************************************************************************)
(* Column names: c.strip().lower().replace(" ", "_")                       *)
(***************************************************************************)
UpperCase == <<"A","B","C","D","E","F","G","H","I","J","K","L","M",
               "N","O","P","Q","R","S","T","U","V","W","X","Y","Z">>
LowerCase == <<"a","b","c","d","e","f","g","h","i","j","k","l","m",
               "n","o","p","q","r","s","t","u","v","w","x","y","z">>

RECURSIVE LStrip(_)
LStrip(s) == IF s # <<>> /\ Head(s) = " " THEN LStrip(Tail(s)) ELSE s

RECURSIVE RStrip(_)
RStrip(s) == IF s # <<>> /\ s[Len(s)] = " " THEN RStrip(SubSeq(s, 1, Len(s) - 1)) ELSE s

Strip(s) == RStrip(LStrip(s))

LowerChar(c) ==
    IF \E i \in 1..Len(UpperCase) : UpperCase[i] = c
    THEN LowerCase[CHOOSE i \in 1..Len(UpperCase) : UpperCase[i] = c]
    ELSE c

Lower(s) == [i \in 1..Len(s) |-> LowerChar(s[i])]

ReplaceSpaces(s) == [i \in 1..Len(s) |-> IF s[i] = " " THEN "_" ELSE s[i]]

NormalizeName(c) == ReplaceSpaces(Lower(Strip(c)))

\* The names the code looks for.
user_id == <<"u","s","e","r","_","i","d">>
movie_id == <<"m","o","v","i","e","_","i","d">>
timestamp == <<"t","i","m","e","s","t","a","m","p">>
date == <<"d","a","t","e">>
watch_date == <<"w","a","t","c","h","_","d","a","t","e">>

KeyCols == <<user_id, movie_id>>
TimeCols == <<timestamp, date, watch_date>>

(***************************************************************************)
(* Frames                                                                  *)
(***************************************************************************)
NCols(f) == Len(f.cols)
NRows(f) == Len(f.rows)
Names(f) == [j \in 1..NCols(f) |-> f.cols[j].name]
Column(f, j) == [i \in 1..NRows(f) |-> f.rows[i].cells[j]]
HasCol(f, name) == \E j \in 1..NCols(f) : f.cols[j].name = name
LabelCount(f, name) == Cardinality({j \in 1..NCols(f) : f.cols[j].name = name})
ColPos(f, name) == CHOOSE j \in 1..NCols(f) : f.cols[j].name = name

\* select_dtypes(include="number") / include="object"
IsNumberDtype(d) == d \in {"int64", "float64"}
IsObjectDtype(d) == d = "object"

\* The subsequence of s at the positions in keep, in order.
RECURSIVE Pick(_, _, _)
Pick(s, keep, i) ==
    IF i > Len(s) THEN <<>>
    ELSE (IF i \in keep THEN <<s[i]>> ELSE <<>>) \o Pick(s, keep, i + 1)

KeepRows(f, keep) == [f EXCEPT !.rows = Pick(f.rows, keep, 1)]

Ok(f) == [ok |-> TRUE, df |-> f, exc |-> "none"]
Raise(f, e) == [ok |-> FALSE, df |-> f, exc |-> e]

(***************************************************************************)
(* pd.read_csv: the uploaded bytes either fail to parse or hold a header   *)
(* and records; the dtype of each column is inferred from its cells.       *)
(***************************************************************************)
InferDtype(cells) ==
    IF Len(cells) = 0 THEN "object"
    ELSE IF \E i \in 1..Len(cells) : cells[i][1] = "str" THEN "object"
    ELSE IF \E i \in 1..Len(cells) : cells[i][1] = "nan" THEN "float64"
    ELSE "int64"

ReadCsv(u) ==
    IF u.kind # "csv" THEN Raise([cols |-> <<>>, rows |-> <<>>], "ParserError")
    ELSE Ok([cols |-> [j \in 1..Len(u.header) |->
                          [name |-> u.header[j],
                           dtype |-> InferDtype([i \in 1..Len(u.records) |-> u.records[i][j]])]],
             rows |-> [i \in 1..Len(u.records) |-> [idx |-> i - 1, cells |-> u.records[i]]]])

(***************************************************************************)
(* The statements of clean_data, as functions of the frame                 *)
(***************************************************************************)
\* df.columns = [c.strip().lower().replace(" ", "_") for c in df.columns]
Rename(f) ==
    [f EXCEPT !.cols = [j \in 1..NCols(f) |->
                           [f.cols[j] EXCEPT !.name = NormalizeName(f.cols[j].name)]]]

\* A mutant of DropDuplicates: keeps the last of equal rows.
DropDuplicatesKeepLast(f) ==
    KeepRows(f, {i \in 1..NRows(f) :
                    \A j \in (i + 1)..NRows(f) : f.rows[j].cells # f.rows[i].cells})

\* df.drop_duplicates(): keep="first", all columns, missing equal to missing.
DropDuplicates(f) ==
    KeepRows(f, {i \in 1..NRows(f) :
                    \A j \in 1..(i - 1) : f.rows[j].cells # f.rows[i].cells})

\* The non-missing cells of column j.
Present(f, j) == SelectSeq(Column(f, j), LAMBDA c : ~IsNa(c))

\* The k-th smallest number of a non-empty sequence of "num" cells.
Kth(cells, k) ==
    CHOOSE v \in {cells[i][2] : i \in 1..Len(cells)} :
        /\ Cardinality({i \in 1..Len(cells) : cells[i][2] < v}) < k
        /\ Cardinality({i \in 1..Len(cells) : cells[i][2] <= v}) >= k

\* A mutant of Median: the lower middle value of an even count.
MedianLow(cells) ==
    IF Len(cells) = 0 THEN NaN
    ELSE <<"num", Kth(cells, (Len(cells) + 1) \div 2), "">>

\* Series.median(): NaN for no values, the middle value, or the mean of the
\* two middle values.
Median(cells) ==
    LET n == Len(cells) IN
    IF n = 0 THEN NaN
    ELSE IF n % 2 = 1 THEN <<"num", Kth(cells, (n + 1) \div 2), "">>
    ELSE <<"num", (Kth(cells, n \div 2) + Kth(cells, n \div 2 + 1)) \div 2, "">>

\* Series.fillna(value): fillna(NaN) leaves the missing cells missing.
FillNa(c, value) == IF IsNa(c) THEN value ELSE c

\* for col in numeric columns: df[col] = df[col].fillna(df[col].median())
FillNumeric(f) ==
    [f EXCEPT !.rows = [i \in 1..NRows(f) |->
        [f.rows[i] EXCEPT !.cells = [j \in 1..NCols(f) |->
            IF IsNumberDtype(f.cols[j].dtype)
            THEN FillNa(f.rows[i].cells[j], Median(Present(f, j)))
            ELSE f.rows[i].cells[j]]]]]

\* if key_col in df.columns: df = df[df[key_col].notna()]
DropKey(f, key) ==
    IF HasCol(f, key)
    THEN KeepRows(f, {i \in 1..NRows(f) : ~IsNa(f.rows[i].cells[ColPos(f, key)])})
    ELSE f

DropMissingIds(f) == DropKey(DropKey(f, KeyCols[1]), KeyCols[2])

\* The date a text parses to, as yyyymmdd; 0 when it does not parse.
DateOf(s) == CASE s = "2020-01-01" -> 20200101 [] OTHER -> 0

\* pd.to_datetime(value, errors="coerce") of one cell.
ToDatetime(c) ==
    CASE c[1] = "str" -> IF DateOf(c[3]) # 0 THEN Ts(DateOf(c[3]), "date") ELSE NaT
      [] c[1] = "num" -> Ts(c[2], "epoch")
      [] c[1] = "nan" -> NaT
      [] OTHER -> c

\* The first of timestamp, date, watch_date among the columns; 0 for none.
FirstTimeCol(f) ==
    IF \E k \in 1..Len(TimeCols) : HasCol(f, TimeCols[k])
    THEN CHOOSE k \in 1..Len(TimeCols) :
            /\ HasCol(f, TimeCols[k])
            /\ \A l \in 1..(k - 1) : ~HasCol(f, TimeCols[l])
    ELSE 0

\* for tcol in [...]: if tcol in df.columns: df[tcol] = pd.to_datetime(...); break
\* A label carried by two columns selects a frame, which to_datetime refuses
\* ("cannot assemble with duplicate keys").
ParseDates(f) ==
    LET k == FirstTimeCol(f) IN
    IF k = 0 THEN Ok(f)
    ELSE IF LabelCount(f, TimeCols[k]) > 1 THEN Raise(f, "ValueError")
    ELSE LET p == ColPos(f, TimeCols[k]) IN
         Ok([cols |-> [f.cols EXCEPT ![p].dtype = "datetime64"],
             rows |-> [i \in 1..NRows(f) |->
                         [f.rows[i] EXCEPT !.cells[p] = ToDatetime(f.rows[i].cells[p])]]])

\* The sort order of the text values (code point order: "2" < "n").
StrRank(s) == CASE s = "2020-01-01" -> 1 [] s = "not-a-date" -> 2 [] OTHER -> 3

Count(cells, c) == Cardinality({i \in 1..Len(cells) : cells[i] = c})

\* The values of the highest count among non-missing cells.
Modes(cells) ==
    {cells[i] : i \in {i \in 1..Len(cells) :
                          \A j \in 1..Len(cells) : Count(cells, cells[j]) <= Count(cells, cells[i])}}

\* A mutant of ModeFirst: of the tied values, the one met first in row order.
ModeFirstMet(cells) ==
    cells[CHOOSE i \in 1..Len(cells) :
            /\ cells[i] \in Modes(cells)
            /\ \A j \in 1..(i - 1) : cells[j] \notin Modes(cells)]

\* Series.mode()[0] of non-missing text cells: mode() is sorted, so element
\* 0 is the least of the tied values.
ModeFirst(cells) ==
    CHOOSE c \in Modes(cells) : \A d \in Modes(cells) : StrRank(c[3]) <= StrRank(d[3])

\* df[col].mode()[0] raises KeyError when the label selects a frame (two
\* columns carry it) and when the column has no non-missing value.
ModeFails(f, j) ==
    LabelCount(f, f.cols[j].name) > 1 \/ Len(Present(f, j)) = 0

\* for col in object columns: df[col] = df[col].fillna(df[col].mode()[0])
FillMode(f) ==
    IF \E j \in 1..NCols(f) : IsObjectDtype(f.cols[j].dtype) /\ ModeFails(f, j)
    THEN Raise(f, "KeyError")
    ELSE Ok([f EXCEPT !.rows = [i \in 1..NRows(f) |->
            [f.rows[i] EXCEPT !.cells = [j \in 1..NCols(f) |->
                IF IsObjectDtype(f.cols[j].dtype)
                THEN FillNa(f.rows[i].cells[j], ModeFirst(Present(f, j)))
                ELSE f.rows[i].cells[j]]]]])

(***************************************************************************)
(* clean_data as the sequence of its statements, per variant               *)
(***************************************************************************)
Steps(v) ==
    IF v = "A"
    THEN <<"copy", "rename", "dedup", "fillnum", "dropids", "dates", "return">>
    ELSE <<"copy", "dedup", "rename", "fillnum", "fillmode", "return">>

\* One statement applied to a frame.
Apply(step, f) ==
    CASE step = "rename" -> Ok(Rename(f))
      [] step = "dedup" -> Ok(DropDuplicates(f))
      [] step = "fillnum" -> Ok(FillNumeric(f))
      [] step = "dropids" -> Ok(DropMissingIds(f))
      [] step = "dates" -> ParseDates(f)
      [] step = "fillmode" -> FillMode(f)
      [] OTHER -> Ok(f)

\* clean_data(f) from statement i on: the returned frame, or the exception.
RECURSIVE RunFrom(_, _, _)
RunFrom(v, i, f) ==
    IF i > Len(Steps(v)) THEN Ok(f)
    ELSE LET r == Apply(Steps(v)[i], f) IN
         IF r.ok THEN RunFrom(v, i + 1, r.df) ELSE r

CleanData(v, f) == RunFrom(v, 1, f)

(***************************************************************************)
(* Objects: heap[1] is the caller's frame (df_raw in A, df in B), df is    *)
(* the object that clean_data's local name df refers to.  A statement      *)
(* either changes that object in place or binds df to a new object; the    *)
(* object df referred to before is then unreferenced unless it is the      *)
(* caller's.                                                               *)
(***************************************************************************)
\* A mutant of DfCopy: no copy is made, df stays the caller's object.
DfCopyAlias(h, r) == [heap |-> h, df |-> r]

\* df = df.copy()
DfCopy(h, r) == [heap |-> <<h[1], h[r]>>, df |-> 2]

\* df = <a new frame>
Rebind(h, f) == [heap |-> <<h[1], f>>, df |-> 2]

\* df.columns = ... / df[col] = ...
InPlace(h, r, f) == [heap |-> [h EXCEPT ![r] = f], df |-> r]

(***************************************************************************)
(* The uploads                                                             *)
(***************************************************************************)
RawUserId == <<"U","s","e","r"," ","I","D">>
RawMovieId == <<"m","o","v","i","e","_","i","d">>
RawRating == <<"R","a","t","i","n","g">>
RawTimestamp == <<"t","i","m","e","s","t","a","m","p">>
RawTimestamp2 == <<" ","T","i","m","e","s","t","a","m","p">>
RawDate == <<"D","a","t","e">>
RawWatchDate == <<"W","a","t","c","h"," ","D","a","t","e">>

\* User ID, Rating and Watch Date hold numbers (Watch Date as epoch counts),
\* the others hold text.
NumHeaders == {RawUserId, RawRating, RawWatchDate}
StrHeaders == {RawMovieId, RawTimestamp, RawTimestamp2, RawDate}
RawHeaders == NumHeaders \cup StrHeaders

NumCells == {Num(1), Num(3), NaN}
StrCells == {Str("2020-01-01"), Str("not-a-date"), NaN}
CellsOf(h) == IF h \in NumHeaders THEN NumCells ELSE StrCells

\* Headers of n distinct raw names (read_csv makes equal names distinct).
RECURSIVE HeadersOfLen(_)
HeadersOfLen(n) ==
    IF n = 0 THEN {<<>>}
    ELSE UNION {{Append(h, c) : c \in RawHeaders \ {h[k] : k \in 1..(n - 1)}} :
                   h \in HeadersOfLen(n - 1)}

\* The records under a header.
RECURSIVE RecordsOf(_)
RecordsOf(h) ==
    IF h = <<>> THEN {<<>>}
    ELSE {<<c>> \o r : c \in CellsOf(Head(h)), r \in RecordsOf(Tail(h))}

\* Two columns whose names become equal select a frame, not a series, under
\* that label.  What the numeric loop and the identifier filter then do is
\* decided outside this repository; the uploads keep such labels to object
\* columns that are not identifiers.
Collides(h, j) == \E k \in 1..Len(h) : k # j /\ NormalizeName(h[k]) = NormalizeName(h[j])

InDomain(u) ==
    \A j \in 1..Len(u.header) :
        Collides(u.header, j) =>
            /\ IsObjectDtype(ReadCsv(u).df.cols[j].dtype)
            /\ NormalizeName(u.header[j]) \notin {user_id, movie_id}

\* An upload: no file, bytes that do not parse, or a header with records.
Upload(k, h, r) == [kind |-> k, header |-> h, records |-> r]
NoFile == Upload("none", <<>>, <<>>)
Malformed == Upload("bad", <<>>, <<>>)

Headers(k) == IF k = "csv" THEN UNION {HeadersOfLen(n) : n \in 1..MaxCols} ELSE {<<>>}
RowCounts(k) == IF k = "csv" THEN 0..MaxRows ELSE {0}

(***************************************************************************)
(* The script run                                                          *)
(***************************************************************************)
Init ==
    /\ variant \in {"A", "B"}
    /\ \E k \in {"none", "bad", "csv"} : \E h \in Headers(k) : \E n \in RowCounts(k) :
          \E r \in [1..n -> RecordsOf(h)] :
              /\ upload = Upload(k, h, r)
              /\ InDomain(upload)
    /\ phase = "start"
    /\ ip = 0
    /\ heap = <<>>
    /\ df = 0
    /\ exc = "none"
    /\ message = "none"
    /\ session = <<>>

\* uploaded_file is None: st.info(...)
NoUpload ==
    /\ phase = "start"
    /\ upload.kind = "none"
    /\ phase' = "idle"
    /\ message' = "info"
    /\ UNCHANGED <<variant, upload, ip, heap, df, exc, session>>

\* pd.read_csv(...), then the call clean_data(df): the parameter df is the
\* caller's object.
Read ==
    /\ phase = "start"
    /\ upload.kind # "none"
    /\ LET r == ReadCsv(upload) IN
       IF r.ok
       THEN /\ heap' = <<r.df>>
            /\ df' = 1
            /\ ip' = 1
            /\ phase' = "clean"
            /\ exc' = exc
       ELSE /\ exc' = r.exc
            /\ phase' = "raised"
            /\ UNCHANGED <<heap, df, ip>>
    /\ UNCHANGED <<variant, upload, message, session>>

AtStep(name) == phase = "clean" /\ Steps(variant)[ip] = name

\* The state after a statement that cannot raise.
Advance(o) ==
    /\ heap' = o.heap
    /\ df' = o.df
    /\ ip' = ip + 1
    /\ UNCHANGED <<variant, upload, phase, exc, message, session>>

\* The state after a statement that changes df in place or raises.
AdvanceOrRaise(r) ==
    IF r.ok
    THEN /\ heap' = InPlace(heap, df, r.df).heap
         /\ ip' = ip + 1
         /\ UNCHANGED <<variant, upload, phase, df, exc, message, session>>
    ELSE /\ exc' = r.exc
         /\ phase' = "raised"
         /\ UNCHANGED <<variant, upload, ip, heap, df, message, session>>

Copy == AtStep("copy") /\ Advance(DfCopy(heap, df))

RenameColumns == AtStep("rename") /\ Advance(InPlace(heap, df, Rename(heap[df])))

Deduplicate == AtStep("dedup") /\ Advance(Rebind(heap, DropDuplicates(heap[df])))

ImputeNumeric == AtStep("fillnum") /\ Advance(InPlace(heap, df, FillNumeric(heap[df])))

DropIds == AtStep("dropids") /\ Advance(Rebind(heap, DropMissingIds(heap[df])))

ParseTimestamps == AtStep("dates") /\ AdvanceOrRaise(ParseDates(heap[df]))

ImputeMode == AtStep("fillmode") /\ AdvanceOrRaise(FillMode(heap[df]))

\* return df
Return ==
    /\ AtStep("return")
    /\ phase' = "store"
    /\ UNCHANGED <<variant, upload, ip, heap, df, exc, message, session>>

\* A: st.session_state["last_columns"] = list(df.columns); st.success(...)
\* B: st.session_state.clean_df = cleaned; st.success(...)
Store ==
    /\ phase = "store"
    /\ session' = IF variant = "A" THEN <<Names(heap[df])>> ELSE <<heap[df]>>
    /\ message' = "success"
    /\ phase' = "done"
    /\ UNCHANGED <<variant, upload, ip, heap, df, exc>>

\* A: except Exception as e: st.error(f"Error processing file: {e}")
HandleException ==
    /\ phase = "raised"
    /\ variant = "A"
    /\ message' = "error"
    /\ phase' = "reported"
    /\ UNCHANGED <<variant, upload, ip, heap, df, exc, session>>

\* B: nothing catches the exception; the script run ends with it.
Uncaught ==
    /\ phase = "raised"
    /\ variant = "B"
    /\ phase' = "crashed"
    /\ UNCHANGED <<variant, upload, ip, heap, df, exc, message, session>>

Next ==
    \/ NoUpload
    \/ Read
    \/ Copy
    \/ RenameColumns
    \/ Deduplicate
    \/ ImputeNumeric
    \/ DropIds
    \/ ParseTimestamps
    \/ ImputeMode
    \/ Return
    \/ Store
    \/ HandleException
    \/ Uncaught

Spec == Init /\ [][Next]_vars

(***************************************************************************)
(* What the properties speak of                                            *)
(***************************************************************************)
\* The frame read_csv handed to clean_data, and the frame clean_data returned.
In == ReadCsv(upload).df
Out == heap[df]
Called == Len(heap) >= 1
Returned == phase = "store"

\* Position in In of the row with index label x.
PosOf(x) == x + 1
InCell(r, j) == In.rows[PosOf(r.idx)].cells[j]

\* The rows of In that are the first of their equals.
FirstOccurrences == {i \in 1..NRows(In) : \A j \in 1..(i - 1) : In.rows[j].cells # In.rows[i].cells}

\* The input under its new names, and the date column variant A parses.
Renamed == Rename(In)

ParsedName == TimeCols[FirstTimeCol(Renamed)]

IsParsedColumn(j) ==
    /\ variant = "A"
    /\ FirstTimeCol(Renamed) # 0
    /\ Renamed.cols[j].name = ParsedName

\* The returned frame is the function CleanData of the frame passed in.
OutIsCleanData == Returned => CleanData(variant, In) = Ok(Out)

(***************************************************************************)
(* C1 (idempotence).  Whenever clean_data returns, running clean_data on   *)
(* the returned frame returns that same frame: same names, same rows in    *)
(* the same order, same cells.                                             *)
(***************************************************************************)
C1_Idempotent == Returned => CleanData(variant, Out) = Ok(Out)

(***************************************************************************)
(* C2 (identifier dropping, variant A).  When the renamed input has a      *)
(* user_id (movie_id) column, no input row whose cell in that column is    *)
(* missing is among the returned rows, whatever the column's dtype.        *)
(***************************************************************************)
C2_MissingIdRowsAbsent ==
    (variant = "A" /\ Returned) =>
        \A k \in 1..Len(KeyCols) : \A j \in 1..NCols(In) :
            NormalizeName(In.cols[j].name) = KeyCols[k] =>
                \A i \in 1..NRows(Out) : ~IsNa(InCell(Out.rows[i], j))

(***************************************************************************)
(* C3 (no duplicate rows).  No two returned rows are equal in all columns  *)
(* (missing equal to missing); and an input whose only cleaning trigger is *)
(* one pair of equal rows comes back one row shorter, the other rows as    *)
(* they were.                                                              *)
(***************************************************************************)
OnlyOneDuplicatePair ==
    /\ Cardinality(FirstOccurrences) = NRows(In) - 1
    /\ \A i \in 1..NRows(In) : \A j \in 1..NCols(In) : ~IsNa(In.rows[i].cells[j])
    /\ FirstTimeCol(Rename(In)) = 0

C3_NoDuplicateRows ==
    Returned =>
        /\ \A i, j \in 1..NRows(Out) : i # j => Out.rows[i].cells # Out.rows[j].cells
        /\ OnlyOneDuplicatePair =>
              /\ NRows(Out) = NRows(In) - 1
              /\ \A i \in 1..NRows(Out) : Out.rows[i] = In.rows[PosOf(Out.rows[i].idx)]

(***************************************************************************)
(* C4 (median imputation).  Stated on its own terms: m is the median of    *)
(* the numbers xs when it is a value with fewer than half of xs on either  *)
(* side, or the mean of two neighbouring values that split xs in halves.   *)
(***************************************************************************)
Below(xs, m) == Cardinality({i \in 1..Len(xs) : xs[i][2] < m})
Above(xs, m) == Cardinality({i \in 1..Len(xs) : xs[i][2] > m})

IsMedianOf(m, xs) ==
    \/ /\ \E i \in 1..Len(xs) : xs[i][2] = m
       /\ 2 * Below(xs, m) < Len(xs)
       /\ 2 * Above(xs, m) < Len(xs)
    \/ \E a, b \in 1..Len(xs) :
          /\ xs[a][2] < xs[b][2]
          /\ 2 * m = xs[a][2] + xs[b][2]
          /\ 2 * Below(xs, xs[b][2]) = Len(xs)
          /\ 2 * Above(xs, xs[a][2]) = Len(xs)

\* The non-missing cells of column j of In over the rows left after
\* duplicate removal.
Deduplicated(j) ==
    SelectSeq(Column(KeepRows(In, FirstOccurrences), j), LAMBDA c : ~IsNa(c))

NumericIn(j) == IsNumberDtype(In.cols[j].dtype)

\* [1, 3, missing, 5] gives 3.
MedianExample ==
    LET f == [cols |-> <<[name |-> RawRating, dtype |-> "float64"]>>,
              rows |-> <<[idx |-> 0, cells |-> <<Num(1)>>], [idx |-> 1, cells |-> <<Num(3)>>],
                         [idx |-> 2, cells |-> <<NaN>>], [idx |-> 3, cells |-> <<Num(5)>>]>>]
    IN Column(FillNumeric(f), 1) = <<Num(1), Num(3), Num(3), Num(5)>>

AsReturned(c, j) ==
    IF IsParsedColumn(j)
    THEN (IF IsNa(c) THEN NaT ELSE <<"ts", c[2], "epoch">>)
    ELSE c

ObjectIn(j) == IsObjectDtype(In.cols[j].dtype)

\* How often the non-missing cell c stands in column j of the input rows
\* that were returned.
Frequency(c, j) == Cardinality({i \in 1..NRows(Out) : InCell(Out.rows[i], j) = c})

MostFrequent(c, j) ==
    /\ ~IsNa(c)
    /\ Frequency(c, j) > 0
    /\ \A i \in 1..NRows(Out) :
          ~IsNa(InCell(Out.rows[i], j)) => Frequency(InCell(Out.rows[i], j), j) <= Frequency(c, j)

\* c is met before any other most frequent value, in row order.
FirstMet(c, j) ==
    \E i \in 1..NRows(Out) :
        /\ InCell(Out.rows[i], j) = c
        /\ \A k \in 1..(i - 1) : ~MostFrequent(InCell(Out.rows[k], j), j)

\* c sorts before every other most frequent value.
SortsFirst(c, j) ==
    \A i \in 1..NRows(Out) :
        MostFrequent(InCell(Out.rows[i], j), j) => StrRank(c[3]) <= StrRank(InCell(Out.rows[i], j)[3])

\* C5 as claimed: no text column holds a missing value, and a missing text
\* cell is replaced by the most frequent value, of tied values the one met
\* first in row order.
C5_ModeTieFirstMet ==
    (variant = "B" /\ Returned) =>
        \A j \in 1..NCols(In) : ObjectIn(j) =>
            \A i \in 1..NRows(Out) :
                LET old == InCell(Out.rows[i], j)
                    new == Out.rows[i].cells[j]
                IN IF ~IsNa(old) THEN new = old
                   ELSE MostFrequent(new, j) /\ FirstMet(new, j)

\* C5 as amended: whenever clean_data returns in variant B, no text column
\* holds a missing value, and a missing text cell is replaced by the value
\* most frequent among the rows left after duplicate removal, of tied
\* values the one that sorts first.
C5_ModeImputation ==
    (variant = "B" /\ Returned) =>
        \A j \in 1..NCols(In) : ObjectIn(j) =>
            \A i \in 1..NRows(Out) :
                LET old == InCell(Out.rows[i], j)
                    new == Out.rows[i].cells[j]
                IN IF ~IsNa(old) THEN new = old
                   ELSE MostFrequent(new, j) /\ SortsFirst(new, j)

\* A returned frame of variant B in which a missing text cell was filled
\* while two values tied and the one that sorts first was met second.
C5_Witness ==
    /\ variant = "B"
    /\ Returned
    /\ \E j \in 1..NCols(In) : \E i \in 1..NRows(Out) :
          /\ ObjectIn(j)
          /\ IsNa(InCell(Out.rows[i], j))
          /\ MostFrequent(Out.rows[i].cells[j], j)
          /\ ~FirstMet(Out.rows[i].cells[j], j)

(***************************************************************************)
(* C6 (totality).  Once clean_data has been called on a parsed dataset, no *)
(* exception is raised, in either variant.                                 *)
(***************************************************************************)
C6_CleanDataTotal == Called => exc = "none"

(***************************************************************************)
(* C7 (date coercion, variant A).  When the renamed input has one of       *)
(* timestamp, date, watch_date, clean_data raises nothing, the column of   *)
(* the first of these names in that order, and no other column, comes back *)
(* as date/time, its unparsable texts missing, and the parsing drops no    *)
(* row.                                                                    *)
(***************************************************************************)
C7_DateCoercion ==
    (variant = "A" /\ Called /\ FirstTimeCol(Renamed) # 0) =>
        /\ exc = "none"
        /\ Returned =>
            /\ \A j \in 1..NCols(Out) :
                  IF Renamed.cols[j].name = ParsedName
                  THEN /\ Out.cols[j].dtype = "datetime64"
                       /\ \A i \in 1..NRows(Out) :
                             LET old == InCell(Out.rows[i], j)
                                 new == Out.rows[i].cells[j]
                             IN /\ new[1] \in {"ts", "nat"}
                                /\ (old[1] = "str" /\ DateOf(old[3]) = 0) => new = NaT
                  ELSE /\ Out.cols[j].dtype = In.cols[j].dtype
                       /\ \A i \in 1..NRows(Out) : Out.rows[i].cells[j][1] \notin {"ts", "nat"}
            /\ NRows(Out) = NRows(DropMissingIds(FillNumeric(DropDuplicates(Renamed))))

(***************************************************************************)
(* C8 (malformed uploads).  In both apps bytes that do not parse end in    *)
(* one error message and not in an uncaught exception, clean_data is not   *)
(* called on them; a run over an upload ends with clean_data completed or  *)
(* with a reported parse failure; session state is written only after a    *)
(* completed clean.                                                        *)
(***************************************************************************)
C8_UploadFlow ==
    /\ (upload.kind = "bad" /\ phase \notin {"start", "raised"}) =>
          (phase = "reported" /\ message = "error")
    /\ upload.kind = "bad" => ~Called
    /\ phase \in {"done", "reported", "crashed"} =>
          (phase = "done" \/ (upload.kind = "bad" /\ phase = "reported"))
    /\ session # <<>> => phase = "done"

(***************************************************************************)
(* C9 (no mutation, determinism).  From the call of clean_data on, the     *)
(* caller's frame keeps the names, rows and cells it was parsed with, and  *)
(* the frame returned is the one function CleanData of variant and input.  *)
(***************************************************************************)
C9_InputNotMutated ==
    /\ Called => heap[1] = In
    /\ OutIsCleanData

\* clean_data returned a frame whose names differ from the caller's.
C9_Witness == Returned /\ Names(Out) # Names(In) /\ heap[1] = In

(***************************************************************************)
(* C10 (frame).  The returned frame has the input's columns in the input's *)
(* order, no more rows than the input; its rows are input rows in their    *)
(* input order, each the first of its equals; and a cell that was present  *)
(* in the input is unchanged, except in the date column variant A parses.  *)
(***************************************************************************)
C10_Frame ==
    Returned =>
        /\ NCols(Out) = NCols(In)
        /\ \A j \in 1..NCols(Out) : Out.cols[j].name = Renamed.cols[j].name
        /\ NRows(Out) <= NRows(In)
        /\ \A i \in 1..NRows(Out) : PosOf(Out.rows[i].idx) \in FirstOccurrences
        /\ \A i, k \in 1..NRows(Out) : i < k => Out.rows[i].idx < Out.rows[k].idx
        /\ \A i \in 1..NRows(Out) : \A j \in 1..NCols(Out) :
              (~IsNa(InCell(Out.rows[i], j)) /\ ~IsParsedColumn(j)) =>
                  Out.rows[i].cells[j] = InCell(Out.rows[i], j)

\* A returned frame that lost the later of two equal rows and kept two rows.
C10_Witness ==
    /\ Returned
    /\ NRows(Out) = 2
    /\ Cardinality(FirstOccurrences) = 2
    /\ NRows(In) = 3

====
